---- MODULE Spec2Model ----
(***************************************************************************)
(* State-machine model of src/index.js: the CMSClient query builder        *)
(* (select / filter / limit), the request composer (_queryBuilder), the    *)
(* fetch-and-normalise steps (_fetchResource, _fetchResourceMetadata),     *)
(* get() and the createClient factory.                                     *)
(*                                                                         *)
(* JavaScript strings are sequences of one-character strings, so that      *)
(* concat, split, join, the last-character test of _queryBuilder and       *)
(* JSON.parse are computed character by character.  JavaScript values are  *)
(* tagged records [t, s, n, a]: t is the type tag, s the characters of a   *)
(* string, n the number (or 1/0 for a boolean), a the elements of an array *)
(* (or the key, value, key, value ... list of an object).                  *)
(*                                                                         *)
(* One client instance is modelled, used sequentially: a builder call or a *)
(* new get() starts only when no get() is in flight.                       *)
(***************************************************************************)
EXTENDS Integers, Sequences, FiniteSets, TLC

\* ------------------------------------------------------------------------
\* Bounds of the model
\* ------------------------------------------------------------------------
MaxGets == 2
MaxCalls == 3
MaxNames == 2

\* ------------------------------------------------------------------------
\* JavaScript values
\* ------------------------------------------------------------------------
Str(chars) == [t |-> "str", s |-> chars, n |-> 0, a |-> <<>>]
Num(k) == [t |-> "num", s |-> <<>>, n |-> k, a |-> <<>>]
Bool(b) == [t |-> "bool", s |-> <<>>, n |-> IF b THEN 1 ELSE 0, a |-> <<>>]
Arr(elems) == [t |-> "arr", s |-> <<>>, n |-> 0, a |-> elems]
Obj(kvs) == [t |-> "obj", s |-> <<>>, n |-> 0, a |-> kvs]
Undefined == [t |-> "undefined", s |-> <<>>, n |-> 0, a |-> <<>>]
Null == [t |-> "null", s |-> <<>>, n |-> 0, a |-> <<>>]

\* ToBoolean: what `if (x)` and `!x` test
Truthy(v) ==
  CASE v.t = "str" -> v.s # <<>>
    [] v.t = "num" -> v.n # 0
    [] v.t = "bool" -> v.n = 1
    [] v.t \in {"arr", "obj"} -> TRUE
    [] OTHER -> FALSE

DigitChar(d) == <<"0", "1", "2", "3", "4", "5", "6", "7", "8", "9">>[d + 1]

RECURSIVE Digits(_)
Digits(k) == IF k < 10 THEN <<DigitChar(k)>> ELSE Digits(k \div 10) \o <<DigitChar(k % 10)>>

RECURSIVE JoinWith(_, _, _)
RECURSIVE ToStr(_)
\* ToStr: what a template literal `${x}` and implicit string coercion do
ToStr(v) ==
  CASE v.t = "str" -> v.s
    [] v.t = "num" -> IF v.n < 0 THEN <<"-">> \o Digits(0 - v.n) ELSE Digits(v.n)
    [] v.t = "bool" -> IF v.n = 1 THEN <<"t", "r", "u", "e">> ELSE <<"f", "a", "l", "s", "e">>
    [] v.t = "undefined" -> <<"u", "n", "d", "e", "f", "i", "n", "e", "d">>
    [] v.t = "null" -> <<"n", "u", "l", "l">>
    [] v.t = "arr" -> JoinWith(v.a, <<",">>, 1)
    [] OTHER -> <<"[", "o", "b", "j", "e", "c", "t", " ", "O", "b", "j", "e", "c", "t", "]">>

\* Array.prototype.join from element i on: null and undefined elements give ''
JoinWith(elems, sep, i) ==
  IF i > Len(elems) THEN <<>>
  ELSE (IF elems[i].t \in {"undefined", "null"} THEN <<>> ELSE ToStr(elems[i]))
       \o (IF i < Len(elems) THEN sep \o JoinWith(elems, sep, i + 1) ELSE <<>>)

\* columns.join(): the default separator is ','
ArrayJoin(elems) == JoinWith(elems, <<",">>, 1)

RECURSIVE SplitFrom(_, _, _, _)
\* String.prototype.split(sep) for a one-character separator: the pieces as strings
SplitFrom(chars, sep, i, cur) ==
  IF i > Len(chars) THEN <<Str(cur)>>
  ELSE IF chars[i] = sep THEN <<Str(cur)>> \o SplitFrom(chars, sep, i + 1, <<>>)
  ELSE SplitFrom(chars, sep, i + 1, Append(cur, chars[i]))

StringSplit(chars, sep) == SplitFrom(chars, sep, 1, <<>>)

\* ------------------------------------------------------------------------
\* JSON.parse, for texts written with letters, digits and the characters
\* " [ ] { } : ,  (no whitespace, escapes, signs, fractions or literals):
\* strings, non-negative integers, arrays and objects.
\* ------------------------------------------------------------------------
DigitSet == {"0", "1", "2", "3", "4", "5", "6", "7", "8", "9"}

DigitValue(c) == CHOOSE d \in 0..9 : DigitChar(d) = c

ParseFail == [ok |-> FALSE, v |-> Undefined, i |-> 0]

RECURSIVE FindQuote(_, _)
FindQuote(chars, i) ==
  IF i > Len(chars) THEN 0
  ELSE IF chars[i] = "\"" THEN i
  ELSE FindQuote(chars, i + 1)

\* chars[i] is the opening quote
ParseString(chars, i) ==
  LET j == FindQuote(chars, i + 1)
  IN IF j = 0 THEN ParseFail
     ELSE [ok |-> TRUE, v |-> Str(SubSeq(chars, i + 1, j - 1)), i |-> j + 1]

RECURSIVE ScanDigits(_, _, _)
ScanDigits(chars, i, acc) ==
  IF i <= Len(chars) /\ chars[i] \in DigitSet
  THEN ScanDigits(chars, i + 1, acc * 10 + DigitValue(chars[i]))
  ELSE [ok |-> TRUE, v |-> Num(acc), i |-> i]

\* chars[i] is a digit; a leading 0 is a number on its own
ParseNumber(chars, i) ==
  IF chars[i] = "0" THEN [ok |-> TRUE, v |-> Num(0), i |-> i + 1]
  ELSE ScanDigits(chars, i, 0)

RECURSIVE ObjPut(_, _, _, _)
\* defining a key again keeps its position and replaces its value
ObjPut(kvs, k, v, i) ==
  IF i > Len(kvs) THEN kvs \o <<k, v>>
  ELSE IF kvs[i] = k THEN [kvs EXCEPT ![i + 1] = v]
  ELSE ObjPut(kvs, k, v, i + 2)

RECURSIVE ParseValue(_, _)
RECURSIVE ParseElems(_, _, _)
RECURSIVE ParseMembers(_, _, _)

ParseValue(chars, i) ==
  IF i > Len(chars) THEN ParseFail
  ELSE IF chars[i] = "\"" THEN ParseString(chars, i)
  ELSE IF chars[i] \in DigitSet THEN ParseNumber(chars, i)
  ELSE IF chars[i] = "[" THEN
    IF i + 1 <= Len(chars) /\ chars[i + 1] = "]"
    THEN [ok |-> TRUE, v |-> Arr(<<>>), i |-> i + 2]
    ELSE ParseElems(chars, i + 1, <<>>)
  ELSE IF chars[i] = "{" THEN
    IF i + 1 <= Len(chars) /\ chars[i + 1] = "}"
    THEN [ok |-> TRUE, v |-> Obj(<<>>), i |-> i + 2]
    ELSE ParseMembers(chars, i + 1, <<>>)
  ELSE ParseFail

ParseElems(chars, i, acc) ==
  LET r == ParseValue(chars, i)
  IN IF ~r.ok \/ r.i > Len(chars) THEN ParseFail
     ELSE IF chars[r.i] = "," THEN ParseElems(chars, r.i + 1, Append(acc, r.v))
     ELSE IF chars[r.i] = "]" THEN [ok |-> TRUE, v |-> Arr(Append(acc, r.v)), i |-> r.i + 1]
     ELSE ParseFail

ParseMembers(chars, i, acc) ==
  IF i > Len(chars) \/ chars[i] # "\"" THEN ParseFail
  ELSE LET k == ParseString(chars, i)
       IN IF ~k.ok \/ k.i > Len(chars) \/ chars[k.i] # ":" THEN ParseFail
          ELSE LET r == ParseValue(chars, k.i + 1)
               IN IF ~r.ok \/ r.i > Len(chars) THEN ParseFail
                  ELSE IF chars[r.i] = ","
                    THEN ParseMembers(chars, r.i + 1, ObjPut(acc, k.v, r.v, 1))
                  ELSE IF chars[r.i] = "}"
                    THEN [ok |-> TRUE, v |-> Obj(ObjPut(acc, k.v, r.v, 1)), i |-> r.i + 1]
                  ELSE ParseFail

\* JSON.parse(text): ok is FALSE where JSON.parse throws a SyntaxError
JSONParse(chars) ==
  LET r == ParseValue(chars, 1)
  IN IF r.ok /\ r.i = Len(chars) + 1 THEN [ok |-> TRUE, v |-> r.v]
     ELSE [ok |-> FALSE, v |-> Undefined]

\* some parses, evaluated when the model is loaded
JSONParseExamples ==
  /\ JSONParse(<<"[", "\"", "a", "\"", ",", "\"", "b", "\"", "]">>)
       = [ok |-> TRUE, v |-> Arr(<<Str(<<"a">>), Str(<<"b">>)>>)]
  /\ JSONParse(<<"[", "{", "\"", "a", "\"", ":", "1", "}", "]">>)
       = [ok |-> TRUE, v |-> Arr(<<Obj(<<Str(<<"a">>), Num(1)>>)>>)]
  /\ JSONParse(<<"\"", "a", ",", "b", "\"">>) = [ok |-> TRUE, v |-> Str(<<"a", ",", "b">>)]
  /\ ~JSONParse(<<"a", ",", "b">>).ok
  /\ ~JSONParse(<<"0", "1">>).ok
  /\ ~JSONParse(<<"[", "1", ",", "]">>).ok
  /\ ~JSONParse(<<>>).ok
  /\ JSONParse(<<"1", "0", "5">>).v = Num(105)
  /\ StringSplit(<<"a", ",", "b", ",">>, ",") = <<Str(<<"a">>), Str(<<"b">>), Str(<<>>)>>
  /\ ToStr(Arr(<<Str(<<"a">>), Null, Num(12)>>)) = <<"a", ",", ",", "1", "2">>
  /\ ToStr(Num(0 - 7)) = <<"-", "7">>

\* ------------------------------------------------------------------------
\* Inputs
\* ------------------------------------------------------------------------
ValidId == Str(<<"i", "d">>)
ResourceIdArgs == {ValidId, Str(<<>>), Undefined, Num(7)}

\* options: a key the caller leaves out reads as undefined
Options(output, includeMetadata) == [output |-> output, includeMetadata |-> includeMetadata]

OptionsArgs ==
  {Options(Undefined, Undefined), Options(Str(<<"c", "s", "v">>), Undefined),
   Options(Undefined, Bool(TRUE))}

SelectArgs ==
  {Str(<<"a", ",", "b">>), Arr(<<Str(<<"a">>), Str(<<"b">>)>>), Undefined}

\* filter(column, resource) argument pairs
FilterArgs ==
  {<<Str(<<"s", "t", "a", "t", "e">>), Str(<<"C", "A">>)>>,
   <<Str(<<"s", "t", "a", "t", "e">>), Str(<<>>)>>,
   <<Str(<<>>), Str(<<"C", "A">>)>>,
   <<Str(<<"s", "t", "a", "t", "e">>), Undefined>>,
   <<Undefined, Str(<<"C", "A">>)>>}

LimitArgs == {Num(5), Num(0), Num(0 - 1), Undefined, Null}

\* further arguments, for the builder calls and the first composition taken alone
MoreResourceIdArgs == {Str(<<"x", "1">>), Null, Bool(TRUE)}
MoreSelectArgs == {Str(<<"c">>), Str(<<>>)}
MoreFilterArgs ==
  {<<Str(<<"s", "t", "a", "t", "e">>), Str(<<"N", "Y">>)>>,
   <<Str(<<"c", "i", "t", "y">>), Str(<<"C", "A">>)>>}
MoreLimitArgs == {Num(12)}

\* a response of the resource endpoint, as fetch(this.url) fulfils with it
Response(fields, outOfDate, lastModified, body) ==
  [state |-> "fulfilled", fields |-> fields, outOfDate |-> outOfDate,
   lastModified |-> lastModified, body |-> body]

\* header values are what headers.get(name) gives: null for a header the response lacks
FieldsList == Str(<<"a", ",", "b", ",", "c">>)
FieldsJson == Str(<<"[", "\"", "a", "\"", ",", "\"", "b", "\"", ",", "\"", "c", "\"", "]">>)
FieldsJsonOne == Str(<<"[", "\"", "a", "\"", "]">>)
OutOfDateFalse == Str(<<"f", "a", "l", "s", "e">>)
LastModifiedMon == Str(<<"M", "o", "n">>)
JsonBody == <<"[", "{", "\"", "a", "\"", ":", "1", "}", "]">>
CsvBody == <<"a", ",", "b">>

Responses ==
  {Response(Null, Null, LastModifiedMon, JsonBody),
   Response(FieldsList, OutOfDateFalse, LastModifiedMon, JsonBody),
   Response(FieldsJson, Null, LastModifiedMon, JsonBody),
   Response(FieldsJsonOne, OutOfDateFalse, LastModifiedMon, CsvBody)}

MetadataBodies == {<<"{", "\"", "i", "d", "\"", ":", "1", "}">>, <<"a">>}

\* the promise of fetch(this.url) before it is fulfilled: "none", "pending" or "rejected"
NoResponse(state) ==
  [state |-> state, fields |-> Null, outOfDate |-> Null, lastModified |-> Null, body |-> <<>>]

\* ------------------------------------------------------------------------
\* CMSClient: the methods as functions of the fields they read
\* ------------------------------------------------------------------------
UrlPrefix == <<"h", "t", "t", "p", "s", ":", "/", "/", "d", "a", "t", "a", ".", "c", "m", "s", ".", "g", "o", "v", "/", "r", "e", "s", "o", "u", "r", "c", "e", "/">>
MetadataUrlPrefix == <<"h", "t", "t", "p", "s", ":", "/", "/", "d", "a", "t", "a", ".", "c", "m", "s", ".", "g", "o", "v", "/", "a", "p", "i", "/", "v", "i", "e", "w", "s", "/", "m", "e", "t", "a", "d", "a", "t", "a", "/", "v", "1", "/">>

\* the constructor without the default of the output format
TypeOfOutput(opts) == opts.output

\* this.type = options?.output || 'json'
TypeOf(opts) == IF Truthy(opts.output) THEN opts.output ELSE Str(<<"j", "s", "o", "n">>)

\* this.url of the constructor
BaseUrl(id, opts) == UrlPrefix \o ToStr(id) \o <<".">> \o ToStr(TypeOf(opts))

\* this.fetchOptions of the constructor: the options, then the four defaults
InitialFetchOptions(opts) ==
  [output |-> opts.output, includeMetadata |-> opts.includeMetadata,
   columns |-> Str(<<>>), filter |-> Str(<<>>), limit |-> Num(0), resource |-> Str(<<>>),
   column |-> Undefined]

\* this.fetched of the constructor: {} || '' is the object
InitialFetched == [metadata |-> Obj(<<>>), fields |-> Arr(<<>>), data |-> Obj(<<>>)]

\* select that takes a string only
selectStringsOnly(fo, columns) ==
  IF columns.t = "str" THEN [fo EXCEPT !.columns = columns] ELSE fo

\* select(columns): the fetchOptions it leaves
select(fo, columns) ==
  IF columns.t = "str" THEN [fo EXCEPT !.columns = columns]
  ELSE IF columns.t = "arr" THEN [fo EXCEPT !.columns = Str(ArrayJoin(columns.a))]
  ELSE fo

\* filter that keeps the pair of the first successful call
filterKeepsFirst(fo, column, resource) ==
  IF ~Truthy(resource) \/ ~Truthy(column) THEN [threw |-> TRUE, fo |-> fo]
  ELSE [threw |-> FALSE,
        fo |-> [output |-> Undefined, includeMetadata |-> Undefined,
                columns |-> Undefined, filter |-> Undefined, limit |-> Undefined,
                resource |-> IF fo.column # Undefined THEN fo.resource ELSE resource,
                column |-> IF fo.column # Undefined THEN fo.column ELSE column]]

\* filter that assigns before it checks its arguments
filterAssignsFirst(fo, column, resource) ==
  [threw |-> ~Truthy(resource) \/ ~Truthy(column),
   fo |-> [output |-> Undefined, includeMetadata |-> Undefined,
           columns |-> Undefined, filter |-> Undefined, limit |-> Undefined,
           resource |-> resource, column |-> column]]

\* filter(column, resource): whether it throws, and the fetchOptions it leaves;
\* the object assigned has the keys column and resource only
filter(fo, column, resource) ==
  IF ~Truthy(resource) \/ ~Truthy(column) THEN [threw |-> TRUE, fo |-> fo]
  ELSE [threw |-> FALSE,
        fo |-> [output |-> Undefined, includeMetadata |-> Undefined,
                columns |-> Undefined, filter |-> Undefined, limit |-> Undefined,
                resource |-> resource, column |-> column]]

\* limit that assigns whatever it is given
limitAlwaysAssigns(fo, limitResource) == [fo EXCEPT !.limit = limitResource]

\* limit(limitResource): the fetchOptions it leaves
limit(fo, limitResource) ==
  IF Truthy(limitResource) THEN [fo EXCEPT !.limit = limitResource] ELSE fo

\* x > 0 for a number, boolean, undefined or null (undefined is NaN, null is 0)
GreaterThanZero(v) ==
  CASE v.t = "num" -> v.n > 0
    [] v.t = "bool" -> v.n = 1
    [] OTHER -> FALSE

\* x !== ''
NotEmptyString(v) == ~(v.t = "str" /\ v.s = <<>>)

\* _queryBuilder that tests the limit for truthiness
_queryBuilderLimitTruthy(u, fo) ==
  LET u1 == u \o <<"?">>
      u2 == IF Truthy(fo.limit) THEN u1 \o <<"$", "l", "i", "m", "i", "t", "=">> \o ToStr(fo.limit) ELSE u1
      u3 == IF NotEmptyString(fo.filter) /\ NotEmptyString(fo.resource)
            THEN u2 \o <<"&">> \o ToStr(fo.column) \o <<"=">> \o ToStr(fo.resource)
            ELSE u2
  IN IF NotEmptyString(fo.columns)
     THEN IF u3[Len(u3)] = "?"
          THEN u3 \o <<"$", "s", "e", "l", "e", "c", "t", "=">> \o ToStr(fo.columns)
          ELSE u3 \o <<"&", "$", "s", "e", "l", "e", "c", "t", "=">> \o ToStr(fo.columns)
     ELSE u3

\* _queryBuilder(): the url it leaves, appended to the url it finds
_queryBuilder(u, fo) ==
  LET u1 == u \o <<"?">>
      u2 == IF GreaterThanZero(fo.limit) THEN u1 \o <<"$", "l", "i", "m", "i", "t", "=">> \o ToStr(fo.limit) ELSE u1
      u3 == IF NotEmptyString(fo.filter) /\ NotEmptyString(fo.resource)
            THEN u2 \o <<"&">> \o ToStr(fo.column) \o <<"=">> \o ToStr(fo.resource)
            ELSE u2
  IN IF NotEmptyString(fo.columns)
     THEN IF u3[Len(u3)] = "?"
          THEN u3 \o <<"$", "s", "e", "l", "e", "c", "t", "=">> \o ToStr(fo.columns)
          ELSE u3 \o <<"&", "$", "s", "e", "l", "e", "c", "t", "=">> \o ToStr(fo.columns)
     ELSE u3

\* JSON.parse(headers.get('x-soda2-fields').split(',')): split throws a TypeError on
\* null; JSON.parse coerces the array of pieces to a string before it parses
ParseFieldsHeader(h) ==
  IF h.t # "str" THEN [ok |-> FALSE, v |-> Undefined, err |-> "TypeError"]
  ELSE LET r == JSONParse(ToStr(Arr(StringSplit(h.s, ","))))
       IN [ok |-> r.ok, v |-> r.v, err |-> IF r.ok THEN "" ELSE "SyntaxError"]

\* _fetchResource that asks for the metadata before it looks at the primary outcome
AfterPrimaryMetadataFirst(rejected, fieldsOk, fo) ==
  IF Truthy(fo.includeMetadata) THEN "metadata"
  ELSE IF rejected \/ ~fieldsOk THEN "reject"
  ELSE "body"

\* _fetchResource once fetch(this.url) has settled: where control goes next
AfterPrimary(rejected, fieldsOk, fo) ==
  IF rejected \/ ~fieldsOk THEN "reject"
  ELSE IF Truthy(fo.includeMetadata) THEN "metadata"
  ELSE "body"

\* a switch that has the default case only
ReadBodyAlwaysJson(ty, body) == JSONParse(body)

\* the switch on this.type: text() for 'csv', json() otherwise
ReadBody(ty, body) ==
  IF ty = Str(<<"c", "s", "v">>) THEN [ok |-> TRUE, v |-> Str(body)]
  ELSE JSONParse(body)

\* ------------------------------------------------------------------------
\* State
\* ------------------------------------------------------------------------
VARIABLES
  created,       \* createClient has returned the client
  resourceId,    \* this.resourceId
  isOutdated,    \* this.isOutdated
  lastModified,  \* this.lastModified
  type,          \* this.type
  url,           \* this.url
  fetchOptions,  \* this.fetchOptions
  fetched,       \* this.fetched: a reference into heap
  heap,          \* the result objects allocated so far, by reference
  pc,            \* where the get() in flight is suspended, or "idle"
  resourceData,  \* fetch(this.url) of the current or last get(): its state and response
  requests,      \* the calls of fetch so far: get() number, endpoint, url
  gets,          \* the number of get() calls started
  calls,         \* the number of select / filter / limit calls made
  returned,      \* what the resolved get() calls returned: reference and contents then
  warned,        \* the last resolved get() called console.warn
  lastOp,        \* the last public call: name, arguments and how it ended
  asked          \* when kept (SpecAsked): the options createClient was given, the last
                 \* arguments select, filter and limit took effect with, and the
                 \* arguments of the successful filter before the last

vars ==
  <<created, resourceId, isOutdated, lastModified, type, url, fetchOptions, fetched, heap,
    pc, resourceData, requests, gets, calls, returned, warned, lastOp, asked>>

clientVars == <<resourceId, isOutdated, lastModified, type, url, fetchOptions, fetched, heap>>

\* at: the step of get() that failed; err: the error that was thrown
Op(name, a1, a2, result, at, err) ==
  [op |-> name, a1 |-> a1, a2 |-> a2, result |-> result, at |-> at, err |-> err]

NothingAsked ==
  [kept |-> TRUE, options |-> Options(Undefined, Undefined), columns |-> Undefined,
   column |-> Undefined, resource |-> Undefined, limit |-> Undefined,
   priorColumn |-> Undefined, priorResource |-> Undefined]

\* the arguments are not kept
AskedOff == [NothingAsked EXCEPT !.kept = FALSE]

\* asked after a call that changes it to a
Asked(a) == IF asked.kept THEN a ELSE asked

\* before createClient
NoClient ==
  /\ created = FALSE
  /\ resourceId = Undefined
  /\ isOutdated = Undefined
  /\ lastModified = Undefined
  /\ type = Undefined
  /\ url = <<>>
  /\ fetchOptions = InitialFetchOptions([output |-> Undefined, includeMetadata |-> Undefined])
  /\ fetched = 0
  /\ heap = <<>>
  /\ pc = "idle"
  /\ resourceData = NoResponse("none")
  /\ requests = <<>>
  /\ gets = 0
  /\ calls = 0
  /\ returned = <<>>
  /\ warned = FALSE
  /\ lastOp = Op("none", Undefined, Undefined, "none", "", "")

Init == NoClient /\ asked = AskedOff

\* the same program, with the arguments of the calls kept in asked
InitAsked == NoClient /\ asked = NothingAsked

\* ------------------------------------------------------------------------
\* createClient and the constructor
\* ------------------------------------------------------------------------
\* createClient that refuses falsy identifiers only
createClientThrowsOnFalsy(id) == ~Truthy(id)

\* createClient(resourceId, options) throws
createClientThrows(id) == ~Truthy(id) \/ id.t # "str"

CreateClient(id, opts) ==
  /\ ~created
  /\ IF createClientThrows(id)
     THEN /\ lastOp' = Op("createClient", id, Undefined, "throw", "", "Error")
          /\ UNCHANGED <<created, clientVars, asked>>
     ELSE /\ created' = TRUE
          /\ resourceId' = id
          /\ isOutdated' = Bool(FALSE)
          /\ lastModified' = Str(<<>>)
          /\ type' = TypeOf(opts)
          /\ url' = BaseUrl(id, opts)
          /\ fetchOptions' = InitialFetchOptions(opts)
          /\ heap' = Append(heap, InitialFetched)
          /\ fetched' = Len(heap) + 1
          /\ asked' = Asked([asked EXCEPT !.options = opts])
          /\ lastOp' = Op("createClient", id, opts.output, "client", "", "")
  /\ UNCHANGED <<pc, resourceData, requests, gets, calls, returned, warned>>

\* ------------------------------------------------------------------------
\* The builder calls
\* ------------------------------------------------------------------------
BuilderReady == created /\ pc = "idle" /\ calls < MaxCalls

BuilderFrame ==
  UNCHANGED <<created, resourceId, isOutdated, lastModified, type, url, fetched, heap,
              pc, resourceData, requests, gets, returned, warned>>

SelectCall(columns) ==
  /\ BuilderReady
  /\ fetchOptions' = select(fetchOptions, columns)
  /\ calls' = calls + 1
  /\ lastOp' = Op("select", columns, Undefined, "this", "", "")
  /\ asked' = Asked(IF columns.t \in {"str", "arr"} THEN [asked EXCEPT !.columns = columns]
                    ELSE asked)
  /\ BuilderFrame

FilterCall(column, resource) ==
  /\ BuilderReady
  /\ LET r == filter(fetchOptions, column, resource)
     IN /\ fetchOptions' = r.fo
        /\ lastOp' = Op("filter", column, resource,
                        IF r.threw THEN "throw" ELSE "this", "", IF r.threw THEN "Error" ELSE "")
        /\ asked' = Asked(IF r.threw THEN asked
                          ELSE [asked EXCEPT !.column = column, !.resource = resource,
                                             !.priorColumn = asked.column,
                                             !.priorResource = asked.resource])
  /\ calls' = calls + 1
  /\ BuilderFrame

LimitCall(limitResource) ==
  /\ BuilderReady
  /\ fetchOptions' = limit(fetchOptions, limitResource)
  /\ calls' = calls + 1
  /\ lastOp' = Op("limit", limitResource, Undefined, "this", "", "")
  /\ asked' = Asked(IF Truthy(limitResource) THEN [asked EXCEPT !.limit = limitResource]
                    ELSE asked)
  /\ BuilderFrame

\* ------------------------------------------------------------------------
\* get(): _queryBuilder, then _fetchResource up to its first await
\* ------------------------------------------------------------------------
\* a call of fetch: the get() it belongs to, the endpoint and the url
Request(k, kind, target) == [get |-> k, kind |-> kind, target |-> target]

\* get() that clears the selected columns and the limit once it has used them
GetFrameResets ==
  /\ UNCHANGED <<created, resourceId, type, fetched, calls, asked>>
  /\ fetchOptions' = [fetchOptions EXCEPT !.columns = Str(<<>>), !.limit = Num(0)]

GetFrame == UNCHANGED <<created, resourceId, type, fetchOptions, fetched, calls, asked>>

\* get() that starts the metadata request together with the resource request
GetStartConcurrent ==
  /\ created /\ pc = "idle" /\ gets < MaxGets
  /\ gets' = gets + 1
  /\ url' = _queryBuilder(url, fetchOptions)
  /\ requests' = Append(requests, Request(gets + 1, "resource", url'))
                   \o (IF Truthy(fetchOptions.includeMetadata)
                       THEN <<Request(gets + 1, "metadata", MetadataUrlPrefix \o ToStr(resourceId))>>
                       ELSE <<>>)
  /\ pc' = "primary"
  /\ resourceData' = NoResponse("pending")
  /\ lastOp' = Op("get", Undefined, Undefined, "pending", "", "")
  /\ UNCHANGED <<isOutdated, lastModified, heap, returned, warned>>
  /\ GetFrame

GetStart ==
  /\ created /\ pc = "idle" /\ gets < MaxGets
  /\ gets' = gets + 1
  /\ url' = _queryBuilder(url, fetchOptions)
  /\ requests' = Append(requests, Request(gets + 1, "resource", url'))
  /\ pc' = "primary"
  /\ resourceData' = NoResponse("pending")
  /\ lastOp' = Op("get", Undefined, Undefined, "pending", "", "")
  /\ UNCHANGED <<isOutdated, lastModified, heap, returned, warned>>
  /\ GetFrame

\* the catch blocks wrap the error and get() rejects
GetRejects(at, err) ==
  /\ pc' = "idle"
  /\ lastOp' = Op("get", Undefined, Undefined, "rejected", at, err)
  /\ UNCHANGED <<returned, warned>>

\* fetch(this.url) rejects
PrimaryFails ==
  /\ pc = "primary"
  /\ IF AfterPrimary(TRUE, FALSE, fetchOptions) = "metadata"
     THEN /\ requests' = Append(requests,
                               Request(gets, "metadata", MetadataUrlPrefix \o ToStr(resourceId)))
          /\ pc' = "metadata"
          /\ UNCHANGED <<lastOp, returned, warned>>
     ELSE /\ GetRejects("primary", "FetchError")
          /\ UNCHANGED requests
  /\ resourceData' = NoResponse("rejected")
  /\ UNCHANGED <<url, isOutdated, lastModified, heap, gets>>
  /\ GetFrame

\* fetch(this.url) resolves with response r: the three headers are read, then the
\* metadata request is issued or the body is awaited
PrimaryResponds(r) ==
  /\ pc = "primary"
  /\ resourceData' = r
  /\ LET f == ParseFieldsHeader(r.fields)
         next == AfterPrimary(FALSE, f.ok, fetchOptions)
     IN /\ IF f.ok
           THEN /\ heap' = [heap EXCEPT ![fetched].fields = f.v]
                /\ isOutdated' = r.outOfDate
                /\ lastModified' = r.lastModified
           ELSE UNCHANGED <<heap, isOutdated, lastModified>>
        /\ IF next = "reject"
           THEN /\ GetRejects("headers", f.err)
                /\ UNCHANGED requests
           ELSE /\ pc' = next
                /\ requests' = IF next = "metadata"
                               THEN Append(requests,
                                      Request(gets, "metadata", MetadataUrlPrefix \o ToStr(resourceId)))
                               ELSE requests
                /\ UNCHANGED <<lastOp, returned, warned>>
  /\ UNCHANGED <<url, gets>>
  /\ GetFrame

\* _fetchResourceMetadata that asks once more when fetch(metadataUrl) rejects
MetadataFailsRetries ==
  /\ pc = "metadata"
  /\ IF Cardinality({i \in DOMAIN requests :
                       requests[i].get = gets /\ requests[i].kind = "metadata"}) < 2
     THEN /\ requests' = Append(requests,
                               Request(gets, "metadata", MetadataUrlPrefix \o ToStr(resourceId)))
          /\ pc' = "metadata"
          /\ UNCHANGED <<lastOp, returned, warned>>
     ELSE /\ GetRejects("metadata", "FetchError")
          /\ UNCHANGED requests
  /\ UNCHANGED <<url, isOutdated, lastModified, heap, resourceData, gets>>
  /\ GetFrame

\* _fetchResourceMetadata: fetch(metadataUrl) rejects
MetadataFails ==
  /\ pc = "metadata"
  /\ GetRejects("metadata", "FetchError")
  /\ UNCHANGED <<url, isOutdated, lastModified, heap, resourceData, requests, gets>>
  /\ GetFrame

\* _fetchResourceMetadata: fetch(metadataUrl) resolves and metadata.json() settles
MetadataResponds(body) ==
  /\ pc = "metadata"
  /\ LET m == JSONParse(body)
     IN IF m.ok
        THEN /\ heap' = [heap EXCEPT ![fetched].metadata = m.v]
             /\ pc' = "body"
             /\ UNCHANGED <<lastOp, returned, warned>>
        ELSE /\ GetRejects("metadata", "SyntaxError")
             /\ UNCHANGED heap
  /\ UNCHANGED <<url, isOutdated, lastModified, resourceData, requests, gets>>
  /\ GetFrame

\* the body arrives and the switch on this.type reads it: text() keeps it as it is and
\* json() parses it; then the rest of get()
BodyArrives ==
  /\ pc = "body"
  /\ LET d == ReadBody(type, resourceData.body)
     IN IF d.ok
        THEN /\ heap' = [heap EXCEPT ![fetched].data = d.v]
             /\ pc' = "idle"
             /\ warned' = ~Truthy(isOutdated)
             /\ returned' = Append(returned, [ref |-> fetched, get |-> gets, value |-> heap'[fetched]])
             /\ lastOp' = Op("get", Undefined, Undefined, "resolved", "", "")
        ELSE /\ GetRejects("body", "SyntaxError")
             /\ UNCHANGED heap
  /\ UNCHANGED <<url, isOutdated, lastModified, resourceData, requests, gets>>
  /\ GetFrame

Next ==
  \/ \E id \in ResourceIdArgs, opts \in OptionsArgs : CreateClient(id, opts)
  \/ \E columns \in SelectArgs : SelectCall(columns)
  \/ \E args \in FilterArgs : FilterCall(args[1], args[2])
  \/ \E limitResource \in LimitArgs : LimitCall(limitResource)
  \/ GetStart
  \/ PrimaryFails
  \/ \E r \in Responses : PrimaryResponds(r)
  \/ MetadataFails
  \/ \E body \in MetadataBodies : MetadataResponds(body)
  \/ BodyArrives

Spec == Init /\ [][Next]_vars

SpecAsked == InitAsked /\ [][Next]_vars

\* the builder calls and the first _queryBuilder run of get() alone, over more arguments;
\* the request stays pending
NextBuild ==
  \/ \E id \in ResourceIdArgs \cup MoreResourceIdArgs, opts \in OptionsArgs : CreateClient(id, opts)
  \/ \E columns \in SelectArgs \cup MoreSelectArgs : SelectCall(columns)
  \/ \E args \in FilterArgs \cup MoreFilterArgs : FilterCall(args[1], args[2])
  \/ \E limitResource \in LimitArgs \cup MoreLimitArgs : LimitCall(limitResource)
  \/ GetStart

SpecBuild == InitAsked /\ [][NextBuild]_vars

TypeOK ==
  /\ created \in BOOLEAN
  /\ pc \in {"idle", "primary", "metadata", "body"}
  /\ gets \in 0..MaxGets
  /\ calls \in 0..MaxCalls
  /\ Len(requests) <= 2 * MaxGets

\* ------------------------------------------------------------------------
\* Vocabulary of the properties
\* ------------------------------------------------------------------------
\* the number of places of chars where sub occurs
CountSub(chars, sub) ==
  Cardinality({i \in 1..Len(chars) :
                 /\ i + Len(sub) - 1 <= Len(chars)
                 /\ SubSeq(chars, i, i + Len(sub) - 1) = sub})

EndsWith(chars, sub) ==
  /\ Len(sub) <= Len(chars)
  /\ SubSeq(chars, Len(chars) - Len(sub) + 1, Len(chars)) = sub

RECURSIVE CommaJoined(_)
\* the column names of a list, written one after the other with commas between
CommaJoined(names) ==
  IF names = <<>> THEN <<>>
  ELSE IF Len(names) = 1 THEN names[1].s
  ELSE names[1].s \o <<",">> \o CommaJoined(Tail(names))

\* the columns a select argument names, as one comma-joined string
SelectedColumns(arg) == IF arg.t = "arr" THEN CommaJoined(arg.a) ELSE arg.s

EmptyOrMissing(v) == v \in {Str(<<>>), Undefined, Null}

Last(seq) == seq[Len(seq)]

\* this get() has issued the request to the metadata endpoint of resourceId
MetadataRequested ==
  \E i \in DOMAIN requests :
    requests[i] = Request(gets, "metadata", MetadataUrlPrefix \o resourceId.s)

GetResolved == lastOp.op = "get" /\ lastOp.result = "resolved"

\* a builder call of the given name is the step being taken
BuilderStep(name) == calls' = calls + 1 /\ lastOp'.op = name

\* ------------------------------------------------------------------------
\* C1..C10
\* ------------------------------------------------------------------------
\* C1: request composition is idempotent: when get() is called again with no builder
\* call since the last get(), the url composed is the url composed before, it has
\* exactly one '?' and no $limit or $select parameter twice.
C1_ComposeIdempotent ==
  [][(lastOp.op = "get" /\ gets' = gets + 1)
       => /\ url' = url
          /\ CountSub(url', <<"?">>) = 1
          /\ CountSub(url', <<"$", "l", "i", "m", "i", "t", "=">>) <= 1
          /\ CountSub(url', <<"$", "s", "e", "l", "e", "c", "t", "=">>) <= 1]_vars

\* C2: on a fresh client on which limit(n) with n > 0, filter(c, v) and select(s) with
\* non-empty s were chained, in any order, the first composed url is the base url
\* followed by ?$limit=n&c=v&$select=s.
C2_ChainedUrl ==
  (/\ gets = 1 /\ pc = "primary" /\ calls = 3
   /\ asked.limit.t = "num" /\ asked.limit.n > 0
   /\ asked.column # Undefined
   /\ asked.columns # Undefined /\ SelectedColumns(asked.columns) # <<>>)
  => url = BaseUrl(resourceId, asked.options)
             \o <<"?", "$", "l", "i", "m", "i", "t", "=">> \o Digits(asked.limit.n)
             \o <<"&">> \o asked.column.s \o <<"=">> \o asked.resource.s
             \o <<"&", "$", "s", "e", "l", "e", "c", "t", "=">> \o SelectedColumns(asked.columns)

\* C3: when the response has a comma-separated fields header and a valid JSON body,
\* get() on a json client resolves (no metadata failure aside) to a result whose
\* fields are the names of the header in order and whose data is the parsed body.
C3_FieldsFromCommaList ==
  (/\ lastOp.op = "get" /\ pc = "idle"
   /\ type = Str(<<"j", "s", "o", "n">>)
   /\ resourceData.state = "fulfilled"
   /\ resourceData.fields = FieldsList
   /\ JSONParse(resourceData.body).ok
   /\ lastOp.at # "metadata")
  => /\ lastOp.result = "resolved"
     /\ Last(returned).value.fields = Arr(StringSplit(resourceData.fields.s, ","))
     /\ Last(returned).value.data = JSONParse(resourceData.body).v

\* C4: a client constructed with includeMetadata requests the metadata of its
\* resourceId in every get() whose primary request and header parsing succeed,
\* whatever builder calls were made, and a resolved get() returns the parsed metadata
\* body; a client constructed without it never requests metadata and its metadata
\* stays empty.
C4_MetadataFollowsOption ==
  created =>
    IF Truthy(asked.options.includeMetadata)
    THEN /\ (resourceData.state = "fulfilled" /\ ParseFieldsHeader(resourceData.fields).ok)
              => MetadataRequested
         /\ GetResolved
              => Last(returned).value.metadata
                   \in {JSONParse(b).v : b \in {m \in MetadataBodies : JSONParse(m).ok}}
    ELSE /\ \A i \in DOMAIN requests : requests[i].kind # "metadata"
         /\ heap[fetched].metadata = Obj(<<>>)

\* C5: when the primary request fails, get() rejects and no metadata request is issued
\* in that get(), also on a client with includeMetadata.
C5_PrimaryFailureRejects ==
  resourceData.state = "rejected"
    => /\ pc = "idle"
       /\ lastOp.op = "get" => lastOp.result = "rejected"
       /\ \A i \in DOMAIN requests : ~(requests[i].get = gets /\ requests[i].kind = "metadata")

C5_Witness ==
  /\ resourceData.state = "rejected"
  /\ Truthy(fetchOptions.includeMetadata)
  /\ lastOp.op = "get" /\ lastOp.result = "rejected" /\ lastOp.at = "primary"

\* C6: filter with an empty or missing column or value throws and leaves the
\* configuration as it was.
C6_FilterRejectsEmpty ==
  [][(BuilderStep("filter") /\ (EmptyOrMissing(lastOp'.a1) \/ EmptyOrMissing(lastOp'.a2)))
       => (lastOp'.result = "throw" /\ fetchOptions' = fetchOptions)]_vars

C6_Witness ==
  /\ lastOp.op = "filter" /\ lastOp.result = "throw"
  /\ lastOp.a2 = Str(<<>>)
  /\ fetchOptions.column = Str(<<"s", "t", "a", "t", "e">>)
  /\ fetchOptions.resource = Str(<<"C", "A">>)

\* C7: limit with a falsy argument (0, undefined, null) changes nothing, so a limit
\* set before stays, and returns the client.
C7_LimitFalsyNoOp ==
  [][(BuilderStep("limit") /\ lastOp'.a1 \in {Num(0), Undefined, Null})
       => (fetchOptions' = fetchOptions /\ lastOp'.result = "this")]_vars

C7_Witness ==
  /\ lastOp.op = "limit" /\ lastOp.a1 = Num(0) /\ lastOp.result = "this"
  /\ fetchOptions.limit = Num(5)

\* C8: every resolved get() returns a result object of its own, and what an earlier
\* get() returned is not changed afterwards.
C8_FreshResult ==
  \A i \in DOMAIN returned :
    /\ \A j \in DOMAIN returned : i # j => returned[i].ref # returned[j].ref
    /\ heap[returned[i].ref] = returned[i].value

\* C9: the first composed url has a $select= parameter only if select was called with
\* non-empty columns, and then the url ends with the comma-joined columns; when select
\* was never called it has none.
C9_SelectOnlyIfSelected ==
  (gets = 1 /\ pc = "primary")
  => /\ CountSub(url, <<"$", "s", "e", "l", "e", "c", "t", "=">>) > 0
          => /\ asked.columns # Undefined
             /\ SelectedColumns(asked.columns) # <<>>
             /\ EndsWith(url, <<"$", "s", "e", "l", "e", "c", "t", "=">> \o SelectedColumns(asked.columns))
     /\ asked.columns = Undefined => CountSub(url, <<"$", "s", "e", "l", "e", "c", "t", "=">>) = 0

\* the other form of a select argument: the comma-joined string of an array of names,
\* the array of names of a comma-joined string
SelectCounterpart(arg) ==
  IF arg.t = "arr" THEN Str(CommaJoined(arg.a)) ELSE Arr(StringSplit(arg.s, ","))

\* the lists of at most MaxNames column names
NameLists == UNION {[1..n -> {Str(<<"a">>), Str(<<"b">>)}] : n \in 0..MaxNames}

\* C10: select with an array of names and select with the comma-joined string of the
\* same names leave the same configuration and compose the same url: so it is for the
\* argument of every select call made, and every list of names leaves the same
\* configuration (the url is composed from nothing else) from the state the call is made in.
C10_SelectStringArrayEquivalent ==
  [][(BuilderStep("select") /\ lastOp'.a1.t \in {"str", "arr"})
       => /\ LET other == select(fetchOptions, SelectCounterpart(lastOp'.a1))
             IN /\ fetchOptions' = other
                /\ _queryBuilder(url, fetchOptions') = _queryBuilder(url, other)
          /\ \A names \in NameLists :
               select(fetchOptions, Arr(names)) = select(fetchOptions, Str(CommaJoined(names)))]_vars

C10_Witness ==
  /\ lastOp.op = "select"
  /\ lastOp.a1 = Arr(<<Str(<<"a">>), Str(<<"b">>)>>)
  /\ fetchOptions.columns = Str(<<"a", ",", "b">>)
  /\ fetchOptions.limit = Num(5)

\* ------------------------------------------------------------------------
\* C11..C20
\* ------------------------------------------------------------------------
\* a non-empty string
NonEmptyString(v) == v.t = "str" /\ v.s # <<>>

\* get() was called once and its request is pending
FirstComposed == gets = 1 /\ pc = "primary"

\* C11: a client made by the factory with a valid identifier, no options and no builder
\* call composes, on its first _queryBuilder run, the url
\* https://data.cms.gov/resource/<id>.json? and requests that url.
C11_BareUrl ==
  (FirstComposed /\ calls = 0 /\ asked.options = Options(Undefined, Undefined))
  => /\ NonEmptyString(resourceId)
     /\ url = UrlPrefix \o resourceId.s \o <<".", "j", "s", "o", "n", "?">>
     /\ requests = <<Request(1, "resource", url)>>

C11_Witness ==
  /\ FirstComposed /\ calls = 0 /\ asked.options = Options(Undefined, Undefined)
  /\ resourceId = Str(<<"x", "1">>)
  /\ Len(url) = Len(UrlPrefix) + 8

\* C12: get() only reads the query configuration: every step of a get() call, from its
\* start to its resolution or rejection, leaves resourceId, the output format and the
\* fetch options (columns, filter pair, limit, includeMetadata) as they were.
C12_GetReadsConfiguration ==
  [][(pc # "idle" \/ pc' # "idle")
       => /\ resourceId' = resourceId
          /\ type' = type
          /\ fetchOptions' = fetchOptions]_vars

C12_Witness ==
  /\ gets = 2 /\ GetResolved
  /\ fetchOptions.limit = Num(5)
  /\ fetchOptions.columns = Str(<<"a", ",", "b">>)
  /\ Len(returned) = 1

\* the requests get() number k issued to the endpoint of the given kind
RequestsOf(k, kind) ==
  {i \in DOMAIN requests : requests[i].get = k /\ requests[i].kind = kind}

GetRejected == lastOp.op = "get" /\ lastOp.result = "rejected"

\* C13: every request belongs to a get() call, each get() issues exactly one request to
\* the resource endpoint and at most one to the metadata endpoint, and a get() that
\* failed before the metadata step issued none: there is no retry, and select, filter
\* and limit issue no request (none exists before the first get()).
C13_OneRequestNoRetry ==
  /\ \A i \in DOMAIN requests : requests[i].get \in 1..gets
  /\ \A k \in 1..gets :
       /\ Cardinality(RequestsOf(k, "resource")) = 1
       /\ Cardinality(RequestsOf(k, "metadata")) <= 1
  /\ Len(requests) = Cardinality(UNION {RequestsOf(k, "resource") \cup RequestsOf(k, "metadata") : k \in 1..gets})
  /\ (GetRejected /\ lastOp.at \in {"primary", "headers"}) => RequestsOf(gets, "metadata") = {}
  /\ (GetRejected /\ lastOp.at = "metadata") => Last(requests).kind = "metadata"

C13_Witness ==
  /\ gets = 2 /\ calls > 0
  /\ GetRejected /\ lastOp.at = "metadata"
  /\ Len(requests) = 4
  /\ Cardinality(RequestsOf(2, "metadata")) = 1

\* the metadata bodies that parse, parsed
ParsedMetadata == {JSONParse(b).v : b \in {m \in MetadataBodies : JSONParse(m).ok}}

\* C14: within a get() the requests are sequential: while the primary request is pending
\* no metadata request of that get() exists; a metadata request exists only once the
\* primary response has arrived and its fields, out-of-date and last-modified headers
\* have been read, and it follows the resource request in the log; the body is awaited,
\* and the get() returns, only when the metadata request that was issued has completed.
C14_Sequential ==
  /\ pc = "primary" => (resourceData.state = "pending" /\ RequestsOf(gets, "metadata") = {})
  /\ RequestsOf(gets, "metadata") # {}
       => /\ resourceData.state = "fulfilled"
          /\ ParseFieldsHeader(resourceData.fields).ok
          /\ heap[fetched].fields = ParseFieldsHeader(resourceData.fields).v
          /\ isOutdated = resourceData.outOfDate
          /\ lastModified = resourceData.lastModified
  /\ \A k \in 1..gets : \A i \in RequestsOf(k, "resource"), j \in RequestsOf(k, "metadata") : i < j
  /\ pc = "metadata" => (RequestsOf(gets, "metadata") # {} /\ \A i \in DOMAIN returned : returned[i].get < gets)
  /\ ((pc = "body" \/ GetResolved) /\ RequestsOf(gets, "metadata") # {})
       => heap[fetched].metadata \in ParsedMetadata

C14_Witness ==
  /\ pc = "body"
  /\ RequestsOf(gets, "metadata") # {}
  /\ heap[fetched].metadata = Obj(<<Str(<<"i", "d">>), Num(1)>>)
  /\ heap[fetched].data = Obj(<<>>)

\* C15: there is no partial result: a get() resolves only when the primary request, the
\* parse of the fields header, the metadata request (with includeMetadata) and the parse
\* of the body have all succeeded, and after a get() that rejected, the result the
\* caller last received holds what it held when it was returned: nothing the failed
\* call wrote.
C15_NoPartialResult ==
  /\ GetResolved
       => /\ resourceData.state = "fulfilled"
          /\ ParseFieldsHeader(resourceData.fields).ok
          /\ Truthy(fetchOptions.includeMetadata)
               => (RequestsOf(gets, "metadata") # {} /\ heap[fetched].metadata \in ParsedMetadata)
          /\ ReadBody(type, resourceData.body).ok
          /\ Last(returned).value.fields = ParseFieldsHeader(resourceData.fields).v
          /\ Last(returned).value.data = ReadBody(type, resourceData.body).v
  /\ (GetRejected /\ returned # <<>>)
       => heap[Last(returned).ref] = Last(returned).value

Csv == Str(<<"c", "s", "v">>)

\* C16: the body is read according to the output format fixed at construction: the type
\* is csv exactly for a client created with output 'csv' and no later step changes it;
\* a get() that resolves on a csv client returns the response text as it is, and on any
\* other client the JSON-parsed body.
C16_BodyByOutputFormat ==
  [][/\ (~created /\ created') => ((type' = Csv) <=> (lastOp'.a2 = Csv))
     /\ created => type' = type
     /\ (pc = "body" /\ lastOp'.result = "resolved")
          => Last(returned').value.data
               = (IF type = Csv THEN Str(resourceData.body) ELSE JSONParse(resourceData.body).v)
     /\ (pc = "body" /\ type # Csv /\ ~JSONParse(resourceData.body).ok)
          => lastOp'.result = "rejected"]_vars

C16_Witness ==
  /\ type = Csv /\ GetResolved
  /\ fetchOptions.column = Str(<<"s", "t", "a", "t", "e">>)
  /\ Last(returned).value.data = Str(CsvBody)

\* C17: createClient with a missing, empty or non-string identifier throws and creates
\* no client; with a non-empty string it returns a new client whose resourceId is that
\* identifier; so a client that exists has a non-empty string as resourceId.
C17_FactoryValidates ==
  /\ created => NonEmptyString(resourceId)
  /\ ~created => (resourceId = Undefined /\ heap = <<>> /\ url = <<>>)
  /\ lastOp.op = "createClient"
       => IF NonEmptyString(lastOp.a1)
          THEN /\ lastOp.result = "client"
               /\ created
               /\ resourceId = lastOp.a1
               /\ heap = <<InitialFetched>> /\ fetched = 1
          ELSE /\ lastOp.result = "throw" /\ lastOp.err = "Error"
               /\ ~created

C17_Witness ==
  /\ lastOp.op = "createClient" /\ lastOp.result = "throw"
  /\ lastOp.a1 = Num(7)
  /\ ~created

\* C18: a successful filter call stores its pair and changes nothing else: the selected
\* columns, the limit and the includeMetadata flag are after the call what they were
\* before it.
C18_FilterChangesFilterOnly ==
  [][(BuilderStep("filter") /\ lastOp'.result = "this")
       => /\ fetchOptions'.column = lastOp'.a1
          /\ fetchOptions'.resource = lastOp'.a2
          /\ fetchOptions'.columns = fetchOptions.columns
          /\ fetchOptions'.limit = fetchOptions.limit
          /\ fetchOptions'.includeMetadata = fetchOptions.includeMetadata]_vars

\* the filter parameter of a column and a value
FilterParam(column, resource) == column.s \o <<"=">> \o resource.s

\* the argument pairs filter succeeds with
ValidFilterArgs ==
  {p \in FilterArgs \cup MoreFilterArgs : NonEmptyString(p[1]) /\ NonEmptyString(p[2])}

\* C19: the filter is single-predicate: the first composed url holds the parameter of
\* the last successful filter call once, and the parameter of no other pair, the pair of
\* the successful call before it included; on a client on which filter never succeeded
\* the url holds no filter parameter: every parameter is $limit or $select.
C19_SinglePredicate ==
  FirstComposed
  => IF asked.column # Undefined
     THEN /\ CountSub(url, <<"&">> \o FilterParam(asked.column, asked.resource)) = 1
          /\ (asked.priorColumn # Undefined
               /\ <<asked.priorColumn, asked.priorResource>> # <<asked.column, asked.resource>>)
               => CountSub(url, FilterParam(asked.priorColumn, asked.priorResource)) = 0
          /\ \A p \in ValidFilterArgs \ {<<asked.column, asked.resource>>} :
               CountSub(url, FilterParam(p[1], p[2])) = 0
     ELSE /\ \A p \in ValidFilterArgs : CountSub(url, FilterParam(p[1], p[2])) = 0
          /\ CountSub(url, <<"=">>) = CountSub(url, <<"$", "l", "i", "m", "i", "t", "=">>)
                                       + CountSub(url, <<"$", "s", "e", "l", "e", "c", "t", "=">>)

C19_Witness ==
  /\ FirstComposed
  /\ asked.priorColumn = Str(<<"s", "t", "a", "t", "e">>) /\ asked.priorResource = Str(<<"C", "A">>)
  /\ asked.column = Str(<<"c", "i", "t", "y">>) /\ asked.resource = Str(<<"C", "A">>)
  /\ CountSub(url, <<"&", "c", "i", "t", "y", "=", "C", "A">>) = 1
  /\ CountSub(url, <<"s", "t", "a", "t", "e">>) = 0

\* the characters of a url after its first '?'
QueryOf(chars) ==
  LET marks == {i \in DOMAIN chars : chars[i] = "?"}
      first == CHOOSE i \in marks : \A j \in marks : i <= j
  IN IF marks = {} THEN <<>> ELSE SubSeq(chars, first + 1, Len(chars))

StartsWith(chars, sub) == Len(sub) <= Len(chars) /\ SubSeq(chars, 1, Len(sub)) = sub

\* C20: the limit reaches the request only when it is greater than 0: with a stored
\* limit n > 0 the first composed url holds $limit= once, as $limit=n directly after the
\* '?' and before any other parameter; with a stored limit that is 0, negative or not
\* set it holds no $limit=.
C20_LimitOnlyIfPositive ==
  FirstComposed
  => IF fetchOptions.limit.t = "num" /\ fetchOptions.limit.n > 0
     THEN LET param == <<"$", "l", "i", "m", "i", "t", "=">> \o Digits(fetchOptions.limit.n)
          IN /\ CountSub(url, <<"$", "l", "i", "m", "i", "t", "=">>) = 1
             /\ StartsWith(QueryOf(url), param)
             /\ Len(QueryOf(url)) > Len(param) => QueryOf(url)[Len(param) + 1] = "&"
     ELSE /\ fetchOptions.limit \in {Num(0), Num(0 - 1), Undefined}
          /\ CountSub(url, <<"$", "l", "i", "m", "i", "t", "=">>) = 0

C20_Witness ==
  /\ FirstComposed
  /\ fetchOptions.limit = Num(12)
  /\ fetchOptions.columns = Str(<<"a", ",", "b">>)
  /\ EndsWith(url, <<"?", "$", "l", "i", "m", "i", "t", "=", "1", "2", "&", "$", "s", "e", "l", "e", "c", "t", "=", "a", ",", "b">>)

====
